---- MODULE Spec2Model ----
(***************************************************************************)
(* filekid: the FileKidFs storage backends (LocalFs, TempDir), their path  *)
(* containment check and the handlers that call them.                      *)
(*                                                                         *)
(* A path string is modelled by its split on '/': the string "/r/a" is     *)
(* <<"", "r", "a">>, the empty string is <<"">>, "a/" is <<"a", "">>.      *)
(* This is a bijection between strings and non-empty sequences of          *)
(* '/'-free segments, so joining, component parsing and the operating      *)
(* system's path resolution all work on what the code really passes.       *)
(***************************************************************************)
EXTENDS Integers, Sequences, FiniteSets, TLC

VARIABLES disk, last, writes, written, noaccess,
          server_paths, handles, requests, configuration, entries, web

vars == <<disk, last, writes, written, noaccess,
          server_paths, handles, requests, configuration, entries, web>>

\* the storage and the call in progress on it
fs_vars == <<disk, last, writes, written, noaccess>>

\* the configuration, the backend handles built from it, the requests in
\* flight with the configuration lock, the entries of a page being sorted,
\* and the web server's control loop
rest_vars == <<server_paths, handles, requests, configuration, entries, web>>

-----------------------------------------------------------------------------
(* Bounds and input sets *)

\* longest key (in '/'-separated segments) a caller supplies
MaxKeyLen == 3

\* number of successful mutations (writes, deletes) in one behaviour
MaxWrites == 1

\* the segments keys are made of: empty, ".", "..", and three names
Segments == {"", ".", "..", "a", "r", "rx"}

RECURSIVE SeqsUpTo(_, _)
SeqsUpTo(S, n) ==
    IF n = 0 THEN {<<>>}
    ELSE LET shorter == SeqsUpTo(S, n - 1)
         IN  shorter \cup {Append(s, x) : s \in {t \in shorter : Len(t) = n - 1}, x \in S}

\* every string of at most MaxKeyLen segments (a string has at least one segment)
Keys == SeqsUpTo(Segments, MaxKeyLen) \ {<<>>}

\* file contents a caller writes
Contents == {<<>>, <<2, 2>>}

\* most fields in one multipart upload request
MaxFields == 1

-----------------------------------------------------------------------------
(* std::path::Path, as the backends use it *)

\* the root both backends are constructed with: "/r"
base_path == <<"", "r">>

\* Path::has_root: the string starts with '/'
has_root(p) == Len(p) >= 2 /\ p[1] = ""

\* a join that only ever appends: an absolute argument lands under the
\* receiver instead of replacing it
join_appending(base, p) ==
    IF base = <<"">> THEN p
    ELSE IF base[Len(base)] = "" THEN SubSeq(base, 1, Len(base) - 1) \o p
    ELSE base \o p

\* PathBuf::join (PathBuf::push): an absolute argument replaces the receiver;
\* otherwise the argument is appended after a separator (none is added when
\* the receiver is empty or already ends with one)
join(base, p) ==
    IF has_root(p) THEN p
    ELSE IF base = <<"">> THEN p
    ELSE IF base[Len(base)] = "" THEN SubSeq(base, 1, Len(base) - 1) \o p
    ELSE base \o p

\* Path::components: the root flag and the component list. Empty segments and
\* "." segments are dropped, except a "." that leads a relative path; ".." is
\* kept as a component and is not resolved.
components(p) ==
    LET lead == IF ~has_root(p) /\ p[1] = "." THEN <<".">> ELSE <<>>
        rest == SelectSeq(SubSeq(p, 2, Len(p)), LAMBDA s : s \notin {"", "."})
        first == IF p[1] \in {"", "."} THEN <<>> ELSE <<p[1]>>
    IN  [root |-> has_root(p), comps |-> lead \o first \o rest]

\* Path::ancestors: the path, its parent, the parent's parent, ...; each step
\* drops the last component
ancestors(p) ==
    LET c == components(p)
    IN  {[root |-> c.root, comps |-> SubSeq(c.comps, 1, n)] : n \in 0..Len(c.comps)}

\* PartialEq for Path: component-wise equality
path_eq(p, q) == components(p) = components(q)

\* Path::file_name: the last component when it is a normal name
file_name(p) ==
    LET c == components(p).comps
    IN  IF Len(c) > 0 /\ c[Len(c)] \notin {".", ".."} THEN <<c[Len(c)]>> ELSE <<>>

\* Path::parent: the path without its last component (None for "/" and "")
parent(p) ==
    LET c == components(p)
    IN  IF Len(c.comps) = 0 THEN <<>>
        ELSE <<[root |-> c.root, comps |-> SubSeq(c.comps, 1, Len(c.comps) - 1)]>>

\* FileKidFs::target_path_from_key, the same in both backends
target_path_from_key(key) == join(base_path, key)

\* the characters of a path string: its segments with '/' between them
seg_chars(s) ==
    CASE s = ""   -> <<>>
      [] s = "."  -> <<".">>
      [] s = ".." -> <<".", ".">>
      [] s = "a"  -> <<"a">>
      [] s = "r"  -> <<"r">>
      [] s = "rx" -> <<"r", "x">>

RECURSIVE to_chars(_)
to_chars(p) ==
    IF Len(p) = 1 THEN seg_chars(p[1])
    ELSE to_chars(SubSeq(p, 1, Len(p) - 1)) \o <<"/">> \o seg_chars(p[Len(p)])

\* a containment check that compares the path strings character by
\* character instead of component by component
is_in_basepath_by_prefix(filename) ==
    LET c == to_chars(join(base_path, filename))
        b == to_chars(base_path)
    IN  Len(c) >= Len(b) /\ SubSeq(c, 1, Len(b)) = b

\* LocalFs::is_in_basepath
LocalFs_is_in_basepath(filename) ==
    \E path \in ancestors(join(base_path, filename)) : path = components(base_path)

\* TempDir::is_in_basepath
TempDir_is_in_basepath(key) ==
    \E path \in ancestors(target_path_from_key(key)) : path = components(base_path)

-----------------------------------------------------------------------------
(* The host filesystem the backends act on (std::fs, tokio::fs).            *)
(* A disk maps each existing node, named by its resolved absolute path (a   *)
(* sequence of names, <<>> being "/"), to a directory or a file with bytes. *)

Dir == [dir |-> TRUE, data |-> <<>>]
File(bytes) == [dir |-> FALSE, data |-> bytes]

\* path resolution as open(2)/stat(2) do it, segment by segment from "/":
\* every segment needs the node reached so far to be an existing directory;
\* "" and "." stay, ".." goes to the parent ("/" is its own parent)
RECURSIVE walk(_, _, _, _)
walk(d, cur, segs, i) ==
    IF cur \notin DOMAIN d THEN [ok |-> FALSE, node |-> <<>>, errno |-> "ENOENT"]
    ELSE IF i > Len(segs) THEN [ok |-> TRUE, node |-> cur, errno |-> ""]
    ELSE IF ~d[cur].dir THEN [ok |-> FALSE, node |-> <<>>, errno |-> "ENOTDIR"]
    ELSE LET s == segs[i]
             next == IF s \in {"", "."} THEN cur
                     ELSE IF s = ".." THEN SubSeq(cur, 1, Len(cur) - 1)
                     ELSE Append(cur, s)
         IN  walk(d, next, segs, i + 1)

\* stat(2) of a path string (base_path is absolute, so every path the
\* backends build is; the first segment is the empty one before the '/')
stat(d, p) == walk(d, <<>>, p, 2)

\* what one storage call did: the path string handed to the operating system,
\* the node it resolved to (no node when resolution failed) and the call
Access(d, p, how) ==
    LET r == stat(d, p)
    IN  [raw |-> p, node |-> IF r.ok THEN {r.node} ELSE {}, how |-> how]

\* Path::exists: metadata(path).is_ok()
path_exists(d, p) == stat(d, p).ok

\* an is-directory test that only asks whether the path exists
path_is_present(d, p) == stat(d, p).ok

\* Path::is_dir
path_is_dir(d, p) == stat(d, p).ok /\ d[stat(d, p).node].dir

\* Path::metadata().len(); the length of a directory is whatever the
\* filesystem reports, here 0
metadata(d, p) ==
    LET r == stat(d, p)
    IN  IF r.ok THEN [ok |-> TRUE, len |-> Len(d[r.node].data), errno |-> ""]
        ELSE [ok |-> FALSE, len |-> 0, errno |-> r.errno]

\* tokio::fs::read
fs_read(d, p) ==
    LET r == stat(d, p)
    IN  IF ~r.ok THEN [ok |-> FALSE, bytes |-> <<>>, errno |-> r.errno]
        ELSE IF d[r.node].dir THEN [ok |-> FALSE, bytes |-> <<>>, errno |-> "EISDIR"]
        ELSE [ok |-> TRUE, bytes |-> d[r.node].data, errno |-> ""]

\* the directory part and the last segment of a path string
dirpart(p) == SubSeq(p, 1, Len(p) - 1)
lastseg(p) == p[Len(p)]

\* a write that opens without O_TRUNC: bytes of the old content beyond the
\* new length stay in the file
fs_write_no_truncate(d, p, bytes) ==
    LET r == stat(d, dirpart(p))
        node == Append(r.node, lastseg(p))
        old == IF node \in DOMAIN d THEN d[node].data ELSE <<>>
        kept == IF Len(old) > Len(bytes) THEN SubSeq(old, Len(bytes) + 1, Len(old)) ELSE <<>>
        fail(e) == [ok |-> FALSE, node |-> {}, errno |-> e, disk |-> d]
    IN  IF ~r.ok THEN fail(r.errno)
        ELSE IF ~d[r.node].dir THEN fail("ENOTDIR")
        ELSE IF lastseg(p) \in {"", ".", ".."} THEN fail("EISDIR")
        ELSE IF node \in DOMAIN d /\ d[node].dir THEN fail("EISDIR")
        ELSE [ok |-> TRUE, node |-> {node}, errno |-> "",
              disk |-> [n \in DOMAIN d \cup {node} |->
                           IF n = node THEN File(bytes \o kept) ELSE d[n]]]

\* tokio::fs::write: open(O_WRONLY|O_CREAT|O_TRUNC) and write everything.
\* The node written is the last segment under the resolved directory part.
fs_write(d, p, bytes) ==
    LET r == stat(d, dirpart(p))
        node == Append(r.node, lastseg(p))
        fail(e) == [ok |-> FALSE, node |-> {}, errno |-> e, disk |-> d]
    IN  IF ~r.ok THEN fail(r.errno)
        ELSE IF ~d[r.node].dir THEN fail("ENOTDIR")
        ELSE IF lastseg(p) \in {"", ".", ".."} THEN fail("EISDIR")
        ELSE IF node \in DOMAIN d /\ d[node].dir THEN fail("EISDIR")
        ELSE [ok |-> TRUE, node |-> {node}, errno |-> "",
              disk |-> [n \in DOMAIN d \cup {node} |-> IF n = node THEN File(bytes) ELSE d[n]]]

\* std::fs::remove_file: unlink(2)
fs_remove_file(d, p) ==
    LET r == stat(d, dirpart(p))
        node == Append(r.node, lastseg(p))
        fail(e) == [ok |-> FALSE, node |-> {}, errno |-> e, disk |-> d]
    IN  IF ~r.ok THEN fail(r.errno)
        ELSE IF ~d[r.node].dir THEN fail("ENOTDIR")
        ELSE IF lastseg(p) \in {"", ".", ".."} THEN fail("EISDIR")
        ELSE IF node \notin DOMAIN d THEN fail("ENOENT")
        ELSE IF d[node].dir THEN fail("EISDIR")
        ELSE [ok |-> TRUE, node |-> {node}, errno |-> "",
              disk |-> [n \in DOMAIN d \ {node} |-> d[n]]]

-----------------------------------------------------------------------------
(* crate::error::Error values and the outcome of one backend call *)

\* Result::Ok(v)
Ok(v) == [kind |-> "Ok", msg |-> "", arg |-> <<>>, val |-> v]

\* Result::Err(Error::kind(msg)), arg being the value formatted into msg
Err(kind, msg, arg) == [kind |-> kind, msg |-> msg, arg |-> arg, val |-> <<>>]

\* impl From<std::io::Error> for Error: every I/O failure becomes Error::Io
\* carrying the operating system's message
ErrorFromIo(errno) == Err("Io", errno, <<>>)

\* a call that hit todo!() unwinds with a panic instead of returning
Panic == [kind |-> "Panic", msg |-> "not yet implemented", arg |-> <<>>, val |-> <<>>]

\* one evaluation of the containment check inside a call: the candidate path
\* whose ancestors were walked, the answer, and whether the caller looked at it
Check(cand, ok, used) == [cand |-> cand, ok |-> ok, used |-> used]

\* a storage call together with the state of the containment check when it
\* was made: "unchecked", "passed", "failed" or "discarded"
Gated(access, gate) == [raw |-> access.raw, node |-> access.node, how |-> access.how, gate |-> gate]

\* what a call returned, the checks it ran, the storage calls it made, and
\* the disk it left (accepted: the upload fields a handler took, see upload_file)
Out(res, checks, acc, d) ==
    [res |-> res, checks |-> checks, acc |-> acc, disk |-> d, accepted |-> <<>>]

\* FileData { filename, filepath, size }; size is <<n>> for Some(n), <<>> for None
FileData(filename, filepath, size) == [filename |-> filename, filepath |-> filepath, size |-> size]

-----------------------------------------------------------------------------
(* impl FileKidFs for LocalFs *)

LocalFs_exists(d, filepath) ==
    LET target_file == join(base_path, filepath)
        found == path_exists(d, target_file)
        inside == LocalFs_is_in_basepath(filepath)
    IN  IF path_eq(base_path, target_file) THEN Out(Ok(TRUE), <<>>, {}, d)
        ELSE Out(Ok(found /\ inside),
                 IF found THEN <<Check(join(base_path, filepath), inside, TRUE)>> ELSE <<>>,
                 {Gated(Access(d, target_file, "stat"), "unchecked")}, d)

LocalFs_get_data(d, path) ==
    LET inside == LocalFs_is_in_basepath(path)
        checks == <<Check(join(base_path, path), inside, FALSE)>>
        actual_filepath == join(base_path, path)
        probe == Gated(Access(d, actual_filepath, "stat"), "discarded")
        filename == file_name(actual_filepath)
        up == parent(actual_filepath)
        meta == metadata(d, actual_filepath)
    IN  IF ~path_exists(d, actual_filepath)
        THEN Out(Err("NotFound", "Can't find {}", path), checks, {probe}, d)
        ELSE IF filename = <<>>
        THEN Out(Err("NotFound", "File not found", <<>>), checks, {probe}, d)
        ELSE Out(Ok(FileData(filename[1],
                             IF up = <<>> THEN components(base_path) ELSE up[1],
                             IF meta.ok THEN <<meta.len>> ELSE <<>>)),
                 checks, {probe}, d)

LocalFs_get_file(d, filepath) ==
    LET target_path == target_path_from_key(filepath)
        inside == LocalFs_is_in_basepath(filepath)
        checks == <<Check(join(base_path, filepath), inside, TRUE)>>
        r == fs_read(d, target_path)
    IN  IF ~inside
        THEN Out(Err("NotAuthorized", "Path is outside of base path", <<>>), checks, {}, d)
        ELSE Out(IF r.ok THEN Ok(r.bytes) ELSE ErrorFromIo(r.errno),
                 checks, {Gated(Access(d, target_path, "read"), "passed")}, d)

LocalFs_put_file(d, filepath, contents) ==
    LET target_file == target_path_from_key(filepath)
        inside == LocalFs_is_in_basepath(target_file)
        checks == <<Check(join(base_path, target_file), inside, TRUE)>>
        w == fs_write(d, target_file, contents)
    IN  IF ~inside
        THEN Out(Err("NotAuthorized", "Path is outside of base path", <<>>), checks, {}, d)
        ELSE Out(IF w.ok THEN Ok(<<>>) ELSE ErrorFromIo(w.errno), checks,
                 {[raw |-> target_file, node |-> w.node, how |-> "write", gate |-> "passed"]},
                 w.disk)

LocalFs_delete_file(d, filepath) ==
    LET target_file == join(base_path, filepath)
        inside == LocalFs_is_in_basepath(target_file)
        checks == <<Check(join(base_path, target_file), inside, TRUE)>>
        u == fs_remove_file(d, target_file)
    IN  IF ~inside
        THEN Out(Err("NotAuthorized", "Path is outside of base path", <<>>), checks, {}, d)
        ELSE Out(IF u.ok THEN Ok(<<>>) ELSE ErrorFromIo(u.errno), checks,
                 {[raw |-> target_file, node |-> u.node, how |-> "unlink", gate |-> "passed"]},
                 u.disk)

-----------------------------------------------------------------------------
(* impl FileKidFs for TempDir *)

TempDir_exists(d, filepath) ==
    LET target == target_path_from_key(filepath)
        found == path_exists(d, target)
        inside == TempDir_is_in_basepath(filepath)
    IN  IF filepath = <<"">> THEN Out(Ok(TRUE), <<>>, {}, d)
        ELSE Out(Ok(found /\ inside),
                 IF found THEN <<Check(target, inside, TRUE)>> ELSE <<>>,
                 {Gated(Access(d, target, "stat"), "unchecked")}, d)

TempDir_get_data(d, path) ==
    LET target == target_path_from_key(path)
        inside == TempDir_is_in_basepath(path)
        checks == <<Check(target, inside, FALSE)>>
        filename == file_name(target)
        up == parent(target)
        meta == metadata(d, target)
        probe == Gated(Access(d, target, "stat"), "discarded")
    IN  IF filename = <<>>
        THEN Out(Err("Generic", "Couldn't get filename", <<>>), checks, {}, d)
        ELSE IF ~meta.ok THEN Out(ErrorFromIo(meta.errno), checks, {probe}, d)
        ELSE Out(Ok(FileData(filename[1],
                             IF up = <<>> THEN components(base_path) ELSE up[1],
                             <<meta.len>>)),
                 checks, {probe}, d)

TempDir_get_file(d, filepath) ==
    LET inside == TempDir_is_in_basepath(filepath)
        target == target_path_from_key(filepath)
        checks == <<Check(target, inside, TRUE)>>
        r == fs_read(d, target)
    IN  IF ~inside
        THEN Out(Err("NotAuthorized", "Path '{}' is outside of base path", filepath),
                 checks, {}, d)
        ELSE Out(IF r.ok THEN Ok(r.bytes) ELSE ErrorFromIo(r.errno),
                 checks, {Gated(Access(d, target, "read"), "passed")}, d)

TempDir_put_file(d, filepath, contents) ==
    LET inside == TempDir_is_in_basepath(filepath)
        target_path == target_path_from_key(filepath)
        checks == <<Check(target_path, inside, TRUE)>>
        w == fs_write(d, target_path, contents)
    IN  IF inside
        THEN Out(IF w.ok THEN Ok(<<>>) ELSE ErrorFromIo(w.errno), checks,
                 {[raw |-> target_path, node |-> w.node, how |-> "write", gate |-> "passed"]},
                 w.disk)
        ELSE Out(Err("NotAuthorized", "Path {} is outside of parent path", filepath),
                 checks, {}, d)

\* todo!("tempdir delete file functionality")
TempDir_delete_file(d, filepath) == Out(Panic, <<>>, {}, d)

-----------------------------------------------------------------------------
(* list_dir. An Option<String> is <<>> for None and <<s>> for Some(s).      *)
(* read_dir yields the children in an order the filesystem chooses: the     *)
(* caller of these operators passes that order.                            *)

\* the names of the immediate children of a directory node
children(d, node) ==
    {n[Len(n)] : n \in {m \in DOMAIN d : Len(m) = Len(node) + 1
                                          /\ SubSeq(m, 1, Len(node)) = node}}

\* the orders read_dir may yield the children in
orders(names) ==
    {o \in [1..Cardinality(names) -> names] : \A i, j \in DOMAIN o : o[i] = o[j] => i = j}

\* FileEntry { filename, fullpath, filetype }
FileEntry(filename, fullpath, filetype) ==
    [filename |-> filename, fullpath |-> fullpath, filetype |-> filetype]

\* str::trim_start_matches("/"): drop every leading '/'
RECURSIVE trim_start_matches(_)
trim_start_matches(s) ==
    IF Len(s) >= 2 /\ s[1] = "" THEN trim_start_matches(SubSeq(s, 2, Len(s))) ELSE s

LocalFs_list_dir(d, path, order) ==
    LET path_addition == IF path = <<>> THEN <<"">> ELSE path[1]
        target_path == target_path_from_key(path_addition)
        inside == LocalFs_is_in_basepath(target_path)
        checks == <<Check(join(base_path, target_path), inside, TRUE)>>
        node == stat(d, target_path).node
        entry(filename) ==
            FileEntry(filename,
                      IF path = <<>> THEN <<filename>> ELSE path[1] \o <<filename>>,
                      IF d[Append(node, filename)].dir THEN "Directory" ELSE "File")
    IN  IF ~inside
        THEN Out(Err("NotAuthorized", "Path is outside of base path", <<>>), checks, {}, d)
        ELSE IF ~path_is_dir(d, target_path)
        THEN Out(Err("BadRequest", "{} is not a directory", path_addition), checks,
                 {Gated(Access(d, target_path, "stat"), "passed")}, d)
        ELSE Out(Ok([i \in DOMAIN order |-> entry(order[i])]), checks,
                 {Gated(Access(d, target_path, "readdir"), "passed")}, d)

TempDir_list_dir(d, path, order) ==
    LET path_addition == IF path = <<>> THEN <<"">> ELSE path[1]
        target_path == join(base_path, path_addition)
        node == stat(d, target_path).node
        entry(filename) ==
            FileEntry(filename,
                      trim_start_matches(path_addition \o <<filename>>),
                      IF d[Append(node, filename)].dir THEN "Directory" ELSE "File")
    IN  IF ~path_is_dir(d, target_path)
        THEN Out(Err("BadRequest", "{} is not a directory", path_addition), <<>>,
                 {Gated(Access(d, target_path, "stat"), "unchecked")}, d)
        ELSE Out(Ok([i \in DOMAIN order |-> entry(order[i])]), <<>>,
                 {Gated(Access(d, target_path, "readdir"), "unchecked")}, d)

\* the children read_dir finds under a list_dir target (none when the target
\* is no directory)
listed(d, path) ==
    LET target_path == join(base_path, IF path = <<>> THEN <<"">> ELSE path[1])
    IN  IF path_is_dir(d, target_path) THEN children(d, stat(d, target_path).node) ELSE {}

-----------------------------------------------------------------------------
(* State: the disk; the call that last returned, with what it did; the      *)
(* number of mutations so far; and, for every node whose latest mutation    *)
(* was a successful put_file, the bytes that call was given; and the        *)
(* directories under the root whose permission bits somebody cleared.       *)

\* the disk when the server starts: the root /r holding a file and a
\* directory, and a file /a outside it
InitDisk ==
    (<<>> :> Dir) @@ (<<"r">> :> Dir) @@ (<<"r", "a">> :> File(<<1>>))
    @@ (<<"r", "r">> :> Dir) @@ (<<"a">> :> File(<<9>>))

Idle ==
    [op |-> "idle", fs |-> "", key |-> <<>>, opt |-> "", data |-> <<>>, fields |-> <<>>,
     res |-> Ok(<<>>), checks |-> <<>>, acc |-> {}, accepted |-> <<>>, changed |-> {}]

\* the nodes on which two disks differ
diff(d, e) ==
    {n \in DOMAIN d \cup DOMAIN e :
        \/ n \notin DOMAIN d
        \/ n \notin DOMAIN e
        \/ (n \in DOMAIN d /\ n \in DOMAIN e /\ d[n] # e[n])}

\* the backend kinds fs_from_serverpath builds
FileKidFsType == {"local", "tempdir"}

InitFs ==
    /\ disk = InitDisk
    /\ last = Idle
    /\ writes = 0
    /\ written = << >>
    /\ noaccess = {}

\* the configuration the handlers above are called with: one server path
\* of each kind, both rooted at base_path
InitServerPaths ==
    server_paths = ("local" :> [type_ |-> "local", path |-> <<base_path>>])
                   @@ ("tempdir" :> [type_ |-> "tempdir", path |-> <<base_path>>])

\* no backend handle alive
InitHandles == handles = <<>>

\* no request in flight, nobody holding or awaiting the configuration lock
InitRequests ==
    /\ requests = << >>
    /\ configuration = [readers |-> {}, writer |-> "none"]

\* no page being sorted
InitEntries == entries = [list |-> <<>>, sorted |-> FALSE, compared |-> <<>>]

\* the control loop: where it is, whether a server started by it is up, the
\* control channel, the message it is sleeping on, for how many
\* milliseconds, what the server came back with, and what the function
\* returned (<<>> while it has not)
WebAt(pc) ==
    [pc |-> pc, serving |-> FALSE, queue |-> <<>>, message |-> <<>>, sleep_ms |-> 0,
     server_result |-> <<>>, result |-> <<>>]

\* run_web_server not called
InitWeb == web = WebAt("off")

Init ==
    /\ InitFs
    /\ InitServerPaths
    /\ InitHandles
    /\ InitRequests
    /\ InitEntries
    /\ InitWeb

\* A handler makes its call when no other call's result is waiting to be
\* turned into a response.
Ready == last.op = "idle"

\* the record of the latest put_file per node after a call: the nodes a
\* successful write touched get its bytes, the nodes an unlink removed lose
\* their entry
record_writes(w, acc, data) ==
    LET put == UNION {a.node : a \in {b \in acc : b.how = "write"}}
        gone == UNION {a.node : a \in {b \in acc : b.how = "unlink"}}
    IN  [n \in (DOMAIN w \cup put) \ gone |-> IF n \in put THEN data ELSE w[n]]

\* a call returns `out`: the disk is what the call left, and a call that
\* mutated storage counts against MaxWrites
Return(op, fs, key, opt, data, fields, out) ==
    LET mutated == out.disk # disk \/ record_writes(written, out.acc, data) # written
    IN  /\ mutated => writes < MaxWrites
        /\ disk' = out.disk
        /\ writes' = IF mutated THEN writes + 1 ELSE writes
        /\ written' = record_writes(written, out.acc, data)
        /\ last' = [op |-> op, fs |-> fs, key |-> key, opt |-> opt, data |-> data,
                    fields |-> fields, res |-> out.res, checks |-> out.checks,
                    acc |-> out.acc, accepted |-> out.accepted,
                    changed |-> diff(disk, out.disk)]
        /\ UNCHANGED <<noaccess, rest_vars>>

\* an existence test that asks for a regular file of that name
exists_regular_file(fs, d, filepath) ==
    LET r == stat(d, target_path_from_key(filepath))
    IN  Out(Ok(r.ok /\ ~d[r.node].dir /\ LocalFs_is_in_basepath(filepath)), <<>>,
            {Gated(Access(d, target_path_from_key(filepath), "stat"), "unchecked")}, d)

\* dyn FileKidFs dispatch on the backend kind
exists(fs, d, filepath) ==
    IF fs = "local" THEN LocalFs_exists(d, filepath) ELSE TempDir_exists(d, filepath)

get_data(fs, d, path) ==
    IF fs = "local" THEN LocalFs_get_data(d, path) ELSE TempDir_get_data(d, path)

get_file(fs, d, filepath) ==
    IF fs = "local" THEN LocalFs_get_file(d, filepath) ELSE TempDir_get_file(d, filepath)

put_file(fs, d, filepath, contents) ==
    IF fs = "local" THEN LocalFs_put_file(d, filepath, contents)
    ELSE TempDir_put_file(d, filepath, contents)

delete_file(fs, d, filepath) ==
    IF fs = "local" THEN LocalFs_delete_file(d, filepath)
    ELSE TempDir_delete_file(d, filepath)

list_dir(fs, d, path, order) ==
    IF fs = "local" THEN LocalFs_list_dir(d, path, order)
    ELSE TempDir_list_dir(d, path, order)

Exists ==
    /\ Ready
    /\ \E fs \in FileKidFsType, key \in Keys :
        Return("exists", fs, key, "", <<>>, <<>>, exists(fs, disk, key))

GetData ==
    /\ Ready
    /\ \E fs \in FileKidFsType, key \in Keys :
        Return("get_data", fs, key, "", <<>>, <<>>, get_data(fs, disk, key))

GetFile ==
    /\ Ready
    /\ \E fs \in FileKidFsType, key \in Keys :
        Return("get_file", fs, key, "", <<>>, <<>>, get_file(fs, disk, key))

PutFile ==
    /\ Ready
    /\ \E fs \in FileKidFsType, key \in Keys, contents \in Contents :
        Return("put_file", fs, key, "", contents, <<>>, put_file(fs, disk, key, contents))

DeleteFile ==
    /\ Ready
    /\ \E fs \in FileKidFsType, key \in Keys :
        Return("delete_file", fs, key, "", <<>>, <<>>, delete_file(fs, disk, key))

ListDir ==
    /\ Ready
    /\ \E fs \in FileKidFsType, path \in {<<>>} \cup {<<k>> : k \in Keys} :
        \E order \in orders(listed(disk, path)) :
            Return("list_dir", fs, IF path = <<>> THEN <<"">> ELSE path[1],
                   IF path = <<>> THEN "None" ELSE "Some", <<>>, <<>>,
                   list_dir(fs, disk, path, order))

-----------------------------------------------------------------------------
(* views::browse::upload_file. A multipart field is its name, its optional  *)
(* file name (<<>> for none, <<F>> for Some(F)) and its bytes.              *)

Field(name, fname, data) == [name |-> name, file_name |-> fname, data |-> data]

\* the loop over the fields, from field i on: `up` is (uploaded_filename,
\* uploaded_data) so far, <<>> while both are None. A "file" field with a file
\* name is taken unless exists(filepath/file_name) says the file is there;
\* taking it stores the DIRECTORY key in uploaded_filename.
RECURSIVE upload_fields(_, _, _, _, _, _)
upload_fields(fs, d, stripped_filepath, fields, i, st) ==
    IF i > Len(fields) THEN st
    ELSE LET field == fields[i]
             full_path == stripped_filepath \o field.file_name[1]
             e == exists(fs, d, full_path)
             skip == upload_fields(fs, d, stripped_filepath, fields, i + 1, st)
         IN  IF field.name # "file" \/ field.file_name = <<>> THEN skip
             ELSE IF e.res.val
             THEN upload_fields(fs, d, stripped_filepath, fields, i + 1,
                                [st EXCEPT !.checks = @ \o e.checks, !.acc = @ \cup e.acc])
             ELSE upload_fields(fs, d, stripped_filepath, fields, i + 1,
                                [up |-> <<stripped_filepath, field.data>>,
                                 checks |-> st.checks \o e.checks,
                                 acc |-> st.acc \cup e.acc,
                                 accepted |-> Append(st.accepted, full_path)])

\* the handler: the loop, then put_file(uploaded_file, uploaded_data) when a
\* field was taken (the value of target_path(..) computed before it is
\* dropped), BadRequest otherwise. Ok carries the redirect target.
upload_file(fs, d, filepath, fields) ==
    LET stripped_filepath == IF filepath = <<>> THEN <<"">> ELSE filepath[1]
        st == upload_fields(fs, d, stripped_filepath, fields, 1,
                            [up |-> <<>>, checks |-> <<>>, acc |-> {}, accepted |-> <<>>])
        p == put_file(fs, d, st.up[1], st.up[2])
    IN  IF st.up = <<>>
        THEN [res |-> Err("BadRequest", "No file uploaded", <<>>), checks |-> st.checks,
              acc |-> st.acc, disk |-> d, accepted |-> st.accepted, data |-> <<>>]
        ELSE [res |-> IF p.res.kind = "Ok" THEN Ok(<<"redirect", stripped_filepath>>) ELSE p.res,
              checks |-> st.checks \o p.checks, acc |-> st.acc \cup p.acc,
              disk |-> p.disk, accepted |-> st.accepted, data |-> st.up[2]]

\* the fields a request for directory key `dir` may carry: "file" fields whose
\* full path dir/file_name has at most MaxKeyLen segments, a "file" field
\* without a file name, an "overwrite" field and a field of another name
UploadFields(dir) ==
    {Field("file", <<f>>, data) : f \in {k \in Keys : Len(dir) + Len(k) <= MaxKeyLen},
                                  data \in Contents}
    \cup {Field("file", <<>>, <<>>), Field("overwrite", <<>>, <<>>), Field("other", <<>>, <<>>)}

UploadFile ==
    /\ Ready
    /\ \E fs \in FileKidFsType, filepath \in {<<>>} \cup {<<k>> : k \in Keys} :
        LET dir == IF filepath = <<>> THEN <<"">> ELSE filepath[1]
        IN  \E fields \in SeqsUpTo(UploadFields(dir), MaxFields) :
                LET out == upload_file(fs, disk, filepath, fields)
                IN  Return("upload_file", fs, dir, IF filepath = <<>> THEN "None" ELSE "Some",
                           out.data, fields, out)

\* the handler turns the returned value into the response and is done
Respond ==
    /\ ~Ready
    /\ last' = Idle
    /\ UNCHANGED <<disk, writes, written, noaccess, rest_vars>>

Next ==
    \/ Exists
    \/ GetData
    \/ GetFile
    \/ PutFile
    \/ DeleteFile
    \/ ListDir
    \/ Respond

Spec == Init /\ [][Next]_vars

\* the upload handler alone
NextUpload ==
    \/ UploadFile
    \/ Respond

SpecUpload == Init /\ [][NextUpload]_vars

-----------------------------------------------------------------------------
(* A storage the server does not own alone. Other processes remove files    *)
(* and directories and clear the permission bits of directories (chmod 000) *)
(* between two calls of the server and between two system calls of one      *)
(* handler. A view is what the operating system holds at one system call:   *)
(* the disk and the directories nobody may read or search.                  *)

View(d, na) == [disk |-> d, noaccess |-> na]

\* path resolution under a view: as walk, and a lookup in a directory
\* without permission fails with EACCES (an empty segment looks nothing up)
RECURSIVE walk_as(_, _, _, _)
walk_as(v, cur, segs, i) ==
    IF cur \notin DOMAIN v.disk THEN [ok |-> FALSE, node |-> <<>>, errno |-> "ENOENT"]
    ELSE IF i > Len(segs) THEN [ok |-> TRUE, node |-> cur, errno |-> ""]
    ELSE IF ~v.disk[cur].dir THEN [ok |-> FALSE, node |-> <<>>, errno |-> "ENOTDIR"]
    ELSE IF segs[i] # "" /\ cur \in v.noaccess
    THEN [ok |-> FALSE, node |-> <<>>, errno |-> "EACCES"]
    ELSE LET s == segs[i]
             next == IF s \in {"", "."} THEN cur
                     ELSE IF s = ".." THEN SubSeq(cur, 1, Len(cur) - 1)
                     ELSE Append(cur, s)
         IN  walk_as(v, next, segs, i + 1)

stat_as(v, p) == walk_as(v, <<>>, p, 2)

\* one storage call under a view: the node is empty when the call failed
Access_as(v, p, how, ok) ==
    [raw |-> p, node |-> IF ok THEN {stat_as(v, p).node} ELSE {}, how |-> how]

\* Path::exists, Path::is_dir and Path::metadata under a view
path_exists_as(v, p) == stat_as(v, p).ok

path_is_dir_as(v, p) == stat_as(v, p).ok /\ v.disk[stat_as(v, p).node].dir

metadata_as(v, p) ==
    LET r == stat_as(v, p)
    IN  IF r.ok THEN [ok |-> TRUE, len |-> Len(v.disk[r.node].data), errno |-> ""]
        ELSE [ok |-> FALSE, len |-> 0, errno |-> r.errno]

\* std::fs::read_dir under a view: opendir(3) of the path
read_dir_as(v, p) ==
    LET r == stat_as(v, p)
        fail(e) == [ok |-> FALSE, names |-> {}, errno |-> e]
    IN  IF ~r.ok THEN fail(r.errno)
        ELSE IF ~v.disk[r.node].dir THEN fail("ENOTDIR")
        ELSE IF r.node \in v.noaccess THEN fail("EACCES")
        ELSE [ok |-> TRUE, names |-> children(v.disk, r.node), errno |-> ""]

\* a node is n or below it
below(m, n) == Len(m) >= Len(n) /\ SubSeq(m, 1, Len(n)) = n

\* what another process may have done to a view by the next system call:
\* nothing, removed the root or something in it (with all below it), or
\* cleared or restored the permission bits of a directory in the root
Interference(v) ==
    LET mine == {n \in DOMAIN v.disk : below(n, components(base_path).comps)}
    IN  {v}
        \cup {View([m \in {k \in DOMAIN v.disk : ~below(k, n)} |-> v.disk[m]],
                   {k \in v.noaccess : ~below(k, n)}) : n \in mine}
        \cup {View(v.disk, v.noaccess \cup {n}) : n \in {k \in mine : v.disk[k].dir}}
        \cup {View(v.disk, v.noaccess \ {n}) : n \in v.noaccess}

\* a probe that reports a root it cannot stat as an error
available_or_error(v) ==
    IF path_exists_as(v, base_path) THEN Out(Ok(TRUE), <<>>, {}, v.disk)
    ELSE Out(ErrorFromIo(stat_as(v, base_path).errno), <<>>, {}, v.disk)

\* LocalFs::available and TempDir::available: Path::exists of the root
LocalFs_available(v) ==
    Out(Ok(path_exists_as(v, base_path)), <<>>,
        {Gated(Access_as(v, base_path, "stat", path_exists_as(v, base_path)), "unchecked")},
        v.disk)

TempDir_available(v) ==
    Out(Ok(path_exists_as(v, base_path)), <<>>,
        {Gated(Access_as(v, base_path, "stat", path_exists_as(v, base_path)), "unchecked")},
        v.disk)

\* LocalFs::get_data when the storage is v1 at the exists() call and v2 at
\* the metadata() call
LocalFs_get_data_between(v1, v2, path) ==
    LET inside == LocalFs_is_in_basepath(path)
        checks == <<Check(join(base_path, path), inside, FALSE)>>
        actual_filepath == join(base_path, path)
        probe == Gated(Access_as(v1, actual_filepath, "stat",
                                 path_exists_as(v1, actual_filepath)), "discarded")
        filename == file_name(actual_filepath)
        up == parent(actual_filepath)
        meta == metadata_as(v2, actual_filepath)
        sized == Gated(Access_as(v2, actual_filepath, "metadata", meta.ok), "discarded")
    IN  IF ~path_exists_as(v1, actual_filepath)
        THEN Out(Err("NotFound", "Can't find {}", path), checks, {probe}, v2.disk)
        ELSE IF filename = <<>>
        THEN Out(Err("NotFound", "File not found", <<>>), checks, {probe}, v2.disk)
        ELSE Out(Ok(FileData(filename[1],
                             IF up = <<>> THEN components(base_path) ELSE up[1],
                             IF meta.ok THEN <<meta.len>> ELSE <<>>)),
                 checks, {probe, sized}, v2.disk)

\* TempDir::get_data when the storage is v2 at its one metadata() call
TempDir_get_data_between(v1, v2, path) ==
    LET target == target_path_from_key(path)
        inside == TempDir_is_in_basepath(path)
        checks == <<Check(target, inside, FALSE)>>
        filename == file_name(target)
        up == parent(target)
        meta == metadata_as(v2, target)
        sized == Gated(Access_as(v2, target, "metadata", meta.ok), "discarded")
    IN  IF filename = <<>>
        THEN Out(Err("Generic", "Couldn't get filename", <<>>), checks, {}, v2.disk)
        ELSE IF ~meta.ok THEN Out(ErrorFromIo(meta.errno), checks, {sized}, v2.disk)
        ELSE Out(Ok(FileData(filename[1],
                             IF up = <<>> THEN components(base_path) ELSE up[1],
                             <<meta.len>>)),
                 checks, {sized}, v2.disk)

\* LocalFs::list_dir when the storage is v1 at the is_dir() call and v2 at
\* the read_dir() call; DirEntry::file_type comes with the entry
LocalFs_list_dir_between(v1, v2, path, order) ==
    LET path_addition == IF path = <<>> THEN <<"">> ELSE path[1]
        target_path == target_path_from_key(path_addition)
        inside == LocalFs_is_in_basepath(target_path)
        checks == <<Check(join(base_path, target_path), inside, TRUE)>>
        rd == read_dir_as(v2, target_path)
        node == stat_as(v2, target_path).node
        entry(filename) ==
            FileEntry(filename,
                      IF path = <<>> THEN <<filename>> ELSE path[1] \o <<filename>>,
                      IF v2.disk[Append(node, filename)].dir THEN "Directory" ELSE "File")
        looked == Gated(Access_as(v1, target_path, "stat", path_exists_as(v1, target_path)),
                        "passed")
        opened == Gated(Access_as(v2, target_path, "readdir", rd.ok), "passed")
    IN  IF ~inside
        THEN Out(Err("NotAuthorized", "Path is outside of base path", <<>>), checks, {},
                 v2.disk)
        ELSE IF ~path_is_dir_as(v1, target_path)
        THEN Out(Err("BadRequest", "{} is not a directory", path_addition), checks,
                 {looked}, v2.disk)
        ELSE IF ~rd.ok
        THEN Out(ErrorFromIo(rd.errno), checks, {looked, opened}, v2.disk)
        ELSE Out(Ok([i \in DOMAIN order |-> entry(order[i])]), checks, {looked, opened},
                 v2.disk)

\* TempDir::list_dir likewise; `if let Ok(readdir)` skips the loop when
\* read_dir() fails
TempDir_list_dir_between(v1, v2, path, order) ==
    LET path_addition == IF path = <<>> THEN <<"">> ELSE path[1]
        target_path == join(base_path, path_addition)
        rd == read_dir_as(v2, target_path)
        node == stat_as(v2, target_path).node
        entry(filename) ==
            FileEntry(filename,
                      trim_start_matches(path_addition \o <<filename>>),
                      IF v2.disk[Append(node, filename)].dir THEN "Directory" ELSE "File")
        looked == Gated(Access_as(v1, target_path, "stat", path_exists_as(v1, target_path)),
                        "unchecked")
        opened == Gated(Access_as(v2, target_path, "readdir", rd.ok), "unchecked")
    IN  IF ~path_is_dir_as(v1, target_path)
        THEN Out(Err("BadRequest", "{} is not a directory", path_addition), <<>>,
                 {looked}, v2.disk)
        ELSE IF ~rd.ok
        THEN Out(Ok(<<>>), <<>>, {looked, opened}, v2.disk)
        ELSE Out(Ok([i \in DOMAIN order |-> entry(order[i])]), <<>>, {looked, opened},
                 v2.disk)

\* dyn FileKidFs dispatch
available(fs, v) ==
    IF fs = "local" THEN LocalFs_available(v) ELSE TempDir_available(v)

get_data_between(fs, v1, v2, path) ==
    IF fs = "local" THEN LocalFs_get_data_between(v1, v2, path)
    ELSE TempDir_get_data_between(v1, v2, path)

list_dir_between(fs, v1, v2, path, order) ==
    IF fs = "local" THEN LocalFs_list_dir_between(v1, v2, path, order)
    ELSE TempDir_list_dir_between(v1, v2, path, order)

\* a call returns `out` having left the storage as the view v2
ReturnAs(op, fs, key, opt, out, v2) ==
    /\ disk' = out.disk
    /\ noaccess' = v2.noaccess
    /\ last' = [op |-> op, fs |-> fs, key |-> key, opt |-> opt, data |-> <<>>,
                fields |-> <<>>, res |-> out.res, checks |-> out.checks,
                acc |-> out.acc, accepted |-> out.accepted,
                changed |-> diff(disk, out.disk)]
    /\ UNCHANGED <<writes, written, rest_vars>>

\* the names read_dir yields for a list_dir target under a view
listed_as(v, path) ==
    read_dir_as(v, join(base_path, IF path = <<>> THEN <<"">> ELSE path[1])).names

Available ==
    /\ Ready
    /\ \E fs \in FileKidFsType :
        ReturnAs("available", fs, <<"">>, "", available(fs, View(disk, noaccess)),
                 View(disk, noaccess))

GetDataBetween ==
    /\ Ready
    /\ \E fs \in FileKidFsType, key \in Keys, v2 \in Interference(View(disk, noaccess)) :
        ReturnAs("get_data", fs, key, "",
                 get_data_between(fs, View(disk, noaccess), v2, key), v2)

ListDirBetween ==
    /\ Ready
    /\ \E fs \in FileKidFsType, path \in {<<>>} \cup {<<k>> : k \in Keys},
          v2 \in Interference(View(disk, noaccess)) :
        \E order \in orders(listed_as(v2, path)) :
            ReturnAs("list_dir", fs, IF path = <<>> THEN <<"">> ELSE path[1],
                     IF path = <<>> THEN "None" ELSE "Some",
                     list_dir_between(fs, View(disk, noaccess), v2, path, order), v2)

\* another process changes the storage while no call is running
OutOfBand ==
    /\ Ready
    /\ \E v2 \in Interference(View(disk, noaccess)) \ {View(disk, noaccess)} :
        /\ disk' = v2.disk
        /\ noaccess' = v2.noaccess
    /\ UNCHANGED <<last, writes, written, rest_vars>>

NextShared ==
    \/ Available
    \/ GetDataBetween
    \/ ListDirBetween
    \/ OutOfBand
    \/ Respond

SpecShared == Init /\ [][NextShared]_vars

-----------------------------------------------------------------------------
(* Notions the claims are stated in *)

\* the operations of the FileKidFs trait that take a key
FsOps == {"exists", "get_data", "get_file", "put_file", "delete_file", "list_dir"}

\* the node the root resolves to
RootNode == components(base_path).comps

\* a node is the root or a descendant of it
inside(node) ==
    Len(node) >= Len(RootNode) /\ SubSeq(node, 1, Len(RootNode)) = RootNode

\* a path with its ".." components applied: each ".." removes the component
\* before it ("/.." is "/")
RECURSIVE apply_parents(_, _)
apply_parents(comps, acc) ==
    IF comps = <<>> THEN acc
    ELSE apply_parents(Tail(comps),
                       IF Head(comps) = ".." THEN SubSeq(acc, 1, Len(acc) - 1)
                       ELSE IF Head(comps) = "." THEN acc
                       ELSE Append(acc, Head(comps)))

normalized(p) == apply_parents(components(p).comps, <<>>)

\* the key's target, with ".." applied, is the root or below it
contained(key) == inside(normalized(target_path_from_key(key)))

has_dotdot(key) == \E i \in DOMAIN key : key[i] = ".."

\* the root equals an ancestor of p, compared component by component
root_is_ancestor(p) ==
    LET c == components(p)
        b == components(base_path)
    IN  /\ c.root = b.root
        /\ Len(c.comps) >= Len(b.comps)
        /\ \A i \in 1..Len(b.comps) : c.comps[i] = b.comps[i]

\* p lies under the sibling /rx, whose name starts with the root's name
under_sibling(p) ==
    LET c == components(p)
    IN  c.root /\ Len(c.comps) >= 1 /\ c.comps[1] = "rx"

\* an absolute key that has the root among none of its ancestors
abs_outside(key) == has_root(key) /\ ~root_is_ancestor(key)

\* the containment check of the call that returned said no
check_failed == \E i \in DOMAIN last.checks : ~last.checks[i].ok

\* the node the returned call's key resolves to on the disk, if any
target_node == Access(disk, target_path_from_key(last.key), "stat").node

-----------------------------------------------------------------------------
(* Claims *)

\* C1: for a key with ".." segments the containment check says yes only when
\* the candidate, with ".." applied, is the root or below it, and no storage
\* call of the operation reaches a node outside the root.
C1_DotDotContained ==
    (last.op \in FsOps /\ has_dotdot(last.key)) =>
        /\ \A i \in DOMAIN last.checks :
               last.checks[i].ok => inside(normalized(last.checks[i].cand))
        /\ \A a \in last.acc : \A n \in a.node : inside(n)

\* C2: every storage call of an operation is made after the containment check
\* of that same call returned true and the operation looked at the answer.
C2_CheckedBeforeStorage ==
    last.op \in FsOps => \A a \in last.acc : a.gate = "passed"

\* C3: for a key beginning with '/' every path an operation works on is the
\* root followed by the key's components.
C3_AbsoluteKeyUnderRoot ==
    (last.op \in FsOps /\ has_root(last.key)) =>
        /\ \A a \in last.acc :
               components(a.raw).comps = components(base_path).comps \o components(last.key).comps
        /\ \A i \in DOMAIN last.checks :
               components(last.checks[i].cand).comps
                   = components(base_path).comps \o components(last.key).comps

C5_AncestorEqualsRoot ==
    \A i \in DOMAIN last.checks :
        /\ last.checks[i].ok <=> root_is_ancestor(last.checks[i].cand)
        /\ under_sibling(last.checks[i].cand) => ~last.checks[i].ok

\* C5 witness: a check on a candidate below /rx has said no
C5_Witness ==
    \E i \in DOMAIN last.checks :
        /\ under_sibling(last.checks[i].cand)
        /\ Len(components(last.checks[i].cand).comps) >= 2
        /\ ~last.checks[i].ok

\* C6: for a non-empty key exists returns true iff the key is contained and
\* its target exists; for an existing target outside the root it is false.
C6_ExistsIffContained ==
    (last.op = "exists" /\ last.key # <<"">>) =>
        (last.res.val <=> (contained(last.key)
                            /\ path_exists(disk, target_path_from_key(last.key))))

\* C7: get_data returns NotAuthorized when the containment check fails,
\* NotFound when it passes and the target is absent, and a FileData only for
\* a checked, existing target inside the root.
C7_GetDataErrors ==
    last.op = "get_data" =>
        /\ check_failed => last.res.kind = "NotAuthorized"
        /\ (~check_failed /\ target_node = {}) => last.res.kind = "NotFound"
        /\ last.res.kind = "Ok" =>
               (~check_failed /\ target_node # {} /\ \A n \in target_node : inside(n))

\* C8: get_file returns NotAuthorized when the containment check fails,
\* NotFound when it passes and the target is absent, and Io only otherwise.
C8_GetFileErrors ==
    last.op = "get_file" =>
        /\ check_failed => last.res.kind = "NotAuthorized"
        /\ (~check_failed /\ target_node = {}) => last.res.kind = "NotFound"
        /\ last.res.kind = "Io" => (~check_failed /\ target_node # {})

C10_UploadContained ==
    last.op = "upload_file" =>
        /\ \A n \in last.changed : inside(n)
        /\ last.changed # {} =>
               (last.accepted # <<>> /\ contained(last.accepted[Len(last.accepted)]))

\* the node a key's target resolves to on a disk, if any
node_of(d, key) == Access(d, target_path_from_key(key), "stat").node

\* the key names the root or something below it, both as the containment
\* check sees it and as the disk resolves it
key_in_root(d, key) ==
    /\ root_is_ancestor(target_path_from_key(key))
    /\ contained(key)
    /\ \A n \in node_of(d, key) : inside(n)

\* C11: delete_file on a contained key whose target is a file returns Ok and
\* removes exactly that node; when the target is a directory (the root via
\* the empty key included) it returns an error and the disk stays as it was.
C11_DeleteOneFile ==
    [][(last'.op = "delete_file" /\ key_in_root(disk, last'.key)) =>
          \A n \in node_of(disk, last'.key) :
              IF disk[n].dir
              THEN /\ last'.res.kind \notin {"Ok", "Panic"}
                   /\ disk' = disk
              ELSE /\ last'.res.kind = "Ok"
                   /\ diff(disk, disk') = {n}
                   /\ n \notin DOMAIN disk']_vars

\* C12: whenever delete_file(key) returns Ok, exists(key) on the disk it left
\* is false; and delete_file of an existing contained file returns Ok.
C12_DeleteThenExists ==
    [][last'.op = "delete_file" =>
          /\ last'.res.kind = "Ok" => exists(last'.fs, disk', last'.key).res = Ok(FALSE)
          /\ (key_in_root(disk, last'.key)
                /\ \E n \in node_of(disk, last'.key) : ~disk[n].dir)
             => last'.res.kind = "Ok"]_vars

\* C13: every call of an operation ends by returning Ok or an Error value,
\* never by a panic.
C13_NoPanic == last.res.kind # "Panic"

\* the entries of a returned listing are one per child of the listed
\* directory, with the child's name and kind
entries_match_children ==
    \A n \in node_of(disk, last.key) :
        LET es == last.res.val
        IN  /\ Len(es) = Cardinality(children(disk, n))
            /\ {es[i].filename : i \in DOMAIN es} = children(disk, n)
            /\ \A i \in DOMAIN es :
                   es[i].filetype = IF disk[Append(n, es[i].filename)].dir
                                    THEN "Directory" ELSE "File"

\* the caller's key joined with a child's name, as a path
key_joined(name) ==
    IF last.opt = "None" THEN <<name>> ELSE join(last.key, <<name>>)

\* C14: a listing has exactly one entry per immediate child of the target
\* directory, with the child's name and kind, and each entry's fullpath is
\* the caller's key joined with the child's name.
C14_ListingCorrect ==
    (last.op = "list_dir" /\ last.res.kind = "Ok") =>
        /\ entries_match_children
        /\ \A i \in DOMAIN last.res.val :
               path_eq(last.res.val[i].fullpath, key_joined(last.res.val[i].filename))

\* C15: list_dir on a key that passes containment and whose target is a
\* regular file or absent returns BadRequest and no entries; on an empty
\* directory it returns Ok with the empty list. (Each half is written as its
\* contrapositive: a call that answers otherwise had a key that fails
\* containment.)
C15_ListNonDirectory ==
    last.op = "list_dir" =>
        LET nodes == node_of(disk, last.key)
            is_directory == \E n \in nodes : disk[n].dir
            is_empty == \A n \in nodes : children(disk, n) = {}
        IN  /\ (~is_directory /\ last.res.kind # "BadRequest") =>
                   ~root_is_ancestor(target_path_from_key(last.key))
            /\ last.res.kind = "BadRequest" => last.res.val = <<>>
            /\ (is_directory /\ is_empty /\ last.res # Ok(<<>>)) =>
                   ~root_is_ancestor(target_path_from_key(last.key))

\* C15 witness: list_dir of a regular file inside the root has returned
C15_Witness ==
    /\ last.op = "list_dir"
    /\ root_is_ancestor(target_path_from_key(last.key))
    /\ \E n \in node_of(disk, last.key) : inside(n) /\ ~disk[n].dir
    /\ last.res.kind = "BadRequest"

\* C16: every entry of a listing has a fullpath that does not begin with '/'
\* and that, taken as a key under the root, names the listed child.
C16_RelativeFullpath ==
    (last.op = "list_dir" /\ last.res.kind = "Ok") =>
        \A i \in DOMAIN last.res.val :
            /\ ~has_root(last.res.val[i].fullpath)
            /\ \A n \in node_of(disk, last.key) :
                   node_of(disk, last.res.val[i].fullpath)
                       = {Append(n, last.res.val[i].filename)}

\* C17: exists with the empty key returns Ok(true) on both backends while
\* the root exists, whatever the root holds.
C17_EmptyKeyExists ==
    (last.op = "exists" /\ last.key = <<"">> /\ RootNode \in DOMAIN disk) =>
        last.res = Ok(TRUE)

\* C17 witness: exists("") has returned on a TempDir whose root holds no
\* regular file
C17_Witness ==
    /\ last.op = "exists" /\ last.key = <<"">> /\ last.fs = "tempdir"
    /\ RootNode \in DOMAIN disk
    /\ \A n \in DOMAIN disk : (inside(n) /\ n # RootNode) => disk[n].dir

\* the read_dir() call of the returned list_dir failed
read_dir_failed == \E a \in last.acc : a.how = "readdir" /\ a.node = {}

\* C18: when read_dir fails during list_dir, list_dir returns an Error value,
\* never Ok with an empty or partial list.
C18_ReadDirFailureReported ==
    (last.op = "list_dir" /\ read_dir_failed) => last.res.kind \notin {"Ok", "Panic"}

\* C19: when get_data is called on a contained key whose target exists and
\* the metadata() call for the size fails, it returns Ok(FileData) with size
\* None; and it returns size None in no other case.
C19_SizeNone ==
    [][last'.op = "get_data" =>
          LET located == /\ key_in_root(disk, last'.key)
                         /\ path_exists_as(View(disk, noaccess),
                                           target_path_from_key(last'.key))
              size_failed == \E a \in last'.acc : a.how = "metadata" /\ a.node = {}
              size_none == last'.res.kind = "Ok" /\ last'.res.val.size = <<>>
          IN  /\ (located /\ size_failed) => size_none
              /\ size_none => (located /\ size_failed)]_vars

\* C20: available() returns Ok(true) when the root is on the disk and
\* Ok(false) when it has been removed, never an error, and leaves the disk
\* as it was.
C20_Available ==
    last.op = "available" =>
        /\ last.res = Ok(RootNode \in DOMAIN disk)
        /\ last.changed = {}

\* C20 witness: available() has returned after the root was removed
C20_Witness ==
    /\ last.op = "available"
    /\ RootNode \notin DOMAIN disk
    /\ last.res = Ok(FALSE)

-----------------------------------------------------------------------------
(* The configuration: server paths, the backends fs_from_serverpath builds  *)
(* from them, and the check made at startup.                                *)

\* Option<PathBuf>: <<>> is None, <<p>> is Some(p)
None == <<>>

Some(p) == <<p>>

\* ServerPath { type_, path }
ServerPath(type_, path) == [type_ |-> type_, path |-> path]

\* the most backend handles alive at once
MaxHandles == 2

\* the names and roots a configuration is drawn from: the root, a
\* directory in it, and a path nothing exists at
ServerNames == {"docs", "tmp"}

Roots == {<<"", "r">>, <<"", "r", "r">>, <<"", "gone">>}

ServerPaths == {ServerPath(t, p) : t \in FileKidFsType, p \in {None} \cup {Some(r) : r \in Roots}}

Configs == UNION {[names -> ServerPaths] : names \in SUBSET ServerNames}

\* LocalFs::new and TempDir::new: the handle holds the path it was given
LocalFs_new(path) == [kind |-> "local", base_path |-> path]

TempDir_new(path) == [kind |-> "tempdir", base_path |-> path]

\* name(): the pieces format! puts together, a literal being the sequence
\* of its one text and the root being displayed as it is
LocalFs_name(fs) == << <<"local">>, <<":">>, fs.base_path >>

TempDir_name(fs) == << <<"tempdir">>, <<" (">>, fs.base_path, <<")">> >>

name(fs) == IF fs.kind = "local" THEN LocalFs_name(fs) ELSE TempDir_name(fs)

\* a factory that builds the local backend whatever the descriptor's kind
fs_from_serverpath_always_local(server_path) ==
    IF server_path.path = None
    THEN Err("Configuration", "No path specified", <<>>)
    ELSE Ok(LocalFs_new(server_path.path[1]))

fs_from_serverpath(server_path) ==
    IF server_path.type_ = "local"
    THEN IF server_path.path = None
         THEN Err("Configuration", "No path specified", <<>>)
         ELSE Ok(LocalFs_new(server_path.path[1]))
    ELSE IF server_path.path = None
         THEN Err("Configuration", "No path specified for tempdir after startup?", <<>>)
         ELSE Ok(TempDir_new(server_path.path[1]))

\* available() of a handle: Path::exists of its root
handle_available(fs, v) == Ok(path_exists_as(v, fs.base_path))

\* a startup check that probes the entries of every kind
RECURSIVE startup_check_every_kind(_, _, _, _)
startup_check_every_kind(sp, order, v, i) ==
    IF i > Len(order) THEN Ok(<<>>)
    ELSE LET filekid == fs_from_serverpath(sp[order[i]])
         IN  IF filekid.kind # "Ok" THEN filekid
             ELSE IF ~handle_available(filekid.val, v).val
             THEN Err("NotFound", "Server path is not online", order[i])
             ELSE startup_check_every_kind(sp, order, v, i + 1)

\* Config::startup_check from the i-th entry on, the HashMap being iterated
\* in `order`; the ? returns the factory's error
RECURSIVE startup_check_from(_, _, _, _)
startup_check_from(sp, order, v, i) ==
    IF i > Len(order) THEN Ok(<<>>)
    ELSE IF sp[order[i]].type_ = "tempdir"
    THEN startup_check_from(sp, order, v, i + 1)
    ELSE LET filekid == fs_from_serverpath(sp[order[i]])
         IN  IF filekid.kind # "Ok" THEN filekid
             ELSE IF ~handle_available(filekid.val, v).val
             THEN Err("NotFound", "Server path is not online", order[i])
             ELSE startup_check_from(sp, order, v, i + 1)

startup_check(sp, order, v) == startup_check_from(sp, order, v, 1)

\* a sequence without its i-th element
drop_at(s, i) == SubSeq(s, 1, i - 1) \o SubSeq(s, i + 1, Len(s))

\* a handler builds the backend of a configured server path; the handle
\* lives until it is dropped
FsFromServerpath ==
    /\ Ready
    /\ \E server \in DOMAIN server_paths :
        LET r == fs_from_serverpath(server_paths[server])
        IN  /\ r.kind = "Ok" => Len(handles) < MaxHandles
            /\ handles' = IF r.kind = "Ok" THEN Append(handles, r.val) ELSE handles
            /\ last' = [Idle EXCEPT !.op = "fs_from_serverpath", !.opt = server, !.res = r]
    /\ UNCHANGED <<disk, writes, written, noaccess, server_paths,
                   requests, configuration, entries, web>>

\* a handle goes out of scope: neither LocalFs nor TempDir implements Drop,
\* so the PathBuf is freed and nothing else happens
DropHandle ==
    /\ Ready
    /\ \E i \in DOMAIN handles :
        /\ handles' = drop_at(handles, i)
        /\ last' = [Idle EXCEPT !.op = "drop", !.res = Ok(handles[i])]
    /\ UNCHANGED <<disk, writes, written, noaccess, server_paths,
                   requests, configuration, entries, web>>

StartupCheck ==
    /\ Ready
    /\ \E order \in orders(DOMAIN server_paths) :
        last' = [Idle EXCEPT !.op = "startup_check",
                             !.res = startup_check(server_paths, order, View(disk, noaccess))]
    /\ UNCHANGED <<disk, writes, written, noaccess, rest_vars>>

InitConfig ==
    /\ InitFs
    /\ server_paths \in Configs
    /\ InitHandles
    /\ InitRequests
    /\ InitEntries
    /\ InitWeb

NextConfig ==
    \/ FsFromServerpath
    \/ DropHandle
    \/ StartupCheck
    \/ OutOfBand
    \/ Respond

SpecConfig == InitConfig /\ [][NextConfig]_vars

\* the handle a call of fs_from_serverpath returned
built == last.res.val

\* C21: fs_from_serverpath returns Error::Configuration exactly when the
\* descriptor has no path, whatever its kind; with a path it returns a
\* backend of the descriptor's kind rooted at exactly that path, whether or
\* not anything exists there, and the backend's name holds both its kind
\* and its root.
C21_FsFromServerpath ==
    last.op = "fs_from_serverpath" =>
        LET server_path == server_paths[last.opt]
        IN  /\ last.res.kind = "Configuration" <=> server_path.path = None
            /\ server_path.path # None =>
                /\ last.res.kind = "Ok"
                /\ built.kind = server_path.type_
                /\ built.base_path = server_path.path[1]
                /\ \E i \in DOMAIN name(built) : name(built)[i] = <<server_path.type_>>
                /\ \E i \in DOMAIN name(built) : name(built)[i] = server_path.path[1]

\* a tempdir backend was built for a root at which nothing exists
C21_Witness ==
    /\ last.op = "fs_from_serverpath"
    /\ last.res.kind = "Ok"
    /\ built.kind = "tempdir"
    /\ ~path_exists_as(View(disk, noaccess), built.base_path)

\* the Local entries of the configuration that have a root which exists
online(server_path) ==
    /\ server_path.path # None
    /\ path_exists_as(View(disk, noaccess), server_path.path[1])

\* C22: startup_check returns Ok exactly when every configured Local server
\* path has a path whose root is available; a Local path that is missing or
\* unavailable makes it an error, and TempDir entries never matter, with or
\* without a path.
C22_StartupCheck ==
    last.op = "startup_check" =>
        (last.res.kind = "Ok" <=>
            \A server \in DOMAIN server_paths :
                server_paths[server].type_ = "local" => online(server_paths[server]))

\* the check passed over a TempDir entry without a path and a Local entry
\* whose root exists
C22_Witness ==
    /\ last.op = "startup_check"
    /\ last.res.kind = "Ok"
    /\ \E server \in DOMAIN server_paths :
        server_paths[server] = ServerPath("tempdir", None)
    /\ \E server \in DOMAIN server_paths : server_paths[server].type_ = "local"

\* C24: when the last TempDir handle built for a root is dropped, the
\* directory is gone afterwards.
C24_DroppedHandleDeletes ==
    [][(last'.op = "drop" /\ last'.res.val.kind = "tempdir"
        /\ \A i \in DOMAIN handles' :
            handles'[i].kind = "tempdir" => handles'[i].base_path # last'.res.val.base_path)
       => ~path_exists_as(View(disk', noaccess'), last'.res.val.base_path)]_vars

-----------------------------------------------------------------------------
(* Request handlers and the configuration lock. The configuration sits in   *)
(* an Arc<RwLock<Config>>; a handler takes a read guard, looks its server   *)
(* path up, builds the backend and calls it. A request here is one run of   *)
(* views::browse::get_file or views::delete::delete_file_post, a step per   *)
(* await or backend call.                                                   *)

\* the most requests in flight
MaxRequests == 2

RequestIds == 1..MaxRequests

Handlers == {"get_file", "delete_file_post"}

\* the server path names and keys requests ask for
AskedServers == {"local", "tempdir", "nope"}

AskedKeys == {<<"a">>, <<"rx">>}

\* the positions of a handler that are calls into the backend
AtBackend == {"exists", "get_file", "delete_file"}

\* the requests that hold a read guard
readers == configuration.readers

\* a request arrives and its handler is about to await configuration.read()
Arrive ==
    /\ \E r \in RequestIds \ DOMAIN requests, h \in Handlers,
          server \in AskedServers, key \in AskedKeys :
        requests' = requests @@
            (r :> [handler |-> h, server |-> server, key |-> key, pc |-> "read",
                   fs |-> "", response |-> Ok(<<>>)])
    /\ UNCHANGED <<fs_vars, server_paths, handles, configuration, entries, web>>

\* configuration.read().await completes: tokio's RwLock is write-preferring,
\* a reader waits while a writer holds or awaits the lock
ReadGuard ==
    /\ \E r \in DOMAIN requests :
        /\ requests[r].pc = "read"
        /\ configuration.writer = "none"
        /\ configuration' = [configuration EXCEPT !.readers = @ \cup {r}]
        /\ requests' = [requests EXCEPT ![r].pc = "lookup"]
    /\ UNCHANGED <<fs_vars, server_paths, handles, entries, web>>

\* server_paths.get(..) and fs_from_serverpath(..)?: an unknown server path
\* or a descriptor without a path ends the handler with an error
Lookup ==
    /\ \E r \in DOMAIN requests :
        /\ requests[r].pc = "lookup"
        /\ LET server == requests[r].server
               filekidfs == fs_from_serverpath(server_paths[server])
           IN  requests' =
                IF server \notin DOMAIN server_paths
                THEN [requests EXCEPT ![r].pc = "return",
                                      ![r].response = Err("NotFound", "", server)]
                ELSE IF filekidfs.kind # "Ok"
                THEN [requests EXCEPT ![r].pc = "return", ![r].response = filekidfs]
                ELSE [requests EXCEPT ![r].pc = "exists", ![r].fs = filekidfs.val.kind]
    /\ UNCHANGED <<fs_vars, server_paths, handles, configuration, entries, web>>

\* filekidfs.exists(key)?: an error or false ends the handler
ExistsCall ==
    /\ \E r \in DOMAIN requests :
        /\ requests[r].pc = "exists"
        /\ LET out == exists(requests[r].fs, disk, requests[r].key)
           IN  requests' =
                IF out.res.kind # "Ok"
                THEN [requests EXCEPT ![r].pc = "return", ![r].response = out.res]
                ELSE IF ~out.res.val
                THEN [requests EXCEPT ![r].pc = "return",
                                      ![r].response = Err("NotFound", "", requests[r].key)]
                ELSE [requests EXCEPT
                        ![r].pc = IF requests[r].handler = "get_file"
                                  THEN "get_file" ELSE "delete_file"]
    /\ UNCHANGED <<fs_vars, server_paths, handles, configuration, entries, web>>

\* filekidfs.get_file(key).await? resp. filekidfs.delete_file(key)?
BackendCall ==
    /\ \E r \in DOMAIN requests :
        /\ requests[r].pc \in {"get_file", "delete_file"}
        /\ LET out == IF requests[r].pc = "get_file"
                      THEN get_file(requests[r].fs, disk, requests[r].key)
                      ELSE delete_file(requests[r].fs, disk, requests[r].key)
           IN  /\ disk' = out.disk
               /\ requests' = [requests EXCEPT ![r].pc = "return", ![r].response = out.res]
    /\ UNCHANGED <<last, writes, written, noaccess,
                   server_paths, handles, configuration, entries, web>>

\* the handler returns (or unwinds): its locals are dropped, server_reader
\* among them
HandlerReturn ==
    /\ \E r \in DOMAIN requests :
        /\ requests[r].pc = "return"
        /\ configuration' = [configuration EXCEPT !.readers = @ \ {r}]
        /\ requests' = [q \in DOMAIN requests \ {r} |-> requests[q]]
    /\ UNCHANGED <<fs_vars, server_paths, handles, entries, web>>

\* somebody asks for configuration.write(), gets the lock once no read
\* guard is left, and gives it back
WriteAwait ==
    /\ configuration.writer = "none"
    /\ configuration' = [configuration EXCEPT !.writer = "waiting"]
    /\ UNCHANGED <<fs_vars, server_paths, handles, requests, entries, web>>

WriteGuard ==
    /\ configuration.writer = "waiting"
    /\ readers = {}
    /\ configuration' = [configuration EXCEPT !.writer = "writing"]
    /\ UNCHANGED <<fs_vars, server_paths, handles, requests, entries, web>>

WriteDone ==
    /\ configuration.writer = "writing"
    /\ configuration' = [configuration EXCEPT !.writer = "none"]
    /\ UNCHANGED <<fs_vars, server_paths, handles, requests, entries, web>>

NextRequest ==
    \/ Arrive
    \/ ReadGuard
    \/ Lookup
    \/ ExistsCall
    \/ BackendCall
    \/ HandlerReturn
    \/ WriteAwait
    \/ WriteGuard
    \/ WriteDone

SpecRequest == Init /\ [][NextRequest]_vars

\* C23: a handler that is calling exists, get_file or delete_file holds no
\* configuration read guard, so that no writer waits behind a backend call.
C23_NoGuardDuringIo ==
    \A r \in DOMAIN requests :
        requests[r].pc \in AtBackend => r \notin readers

-----------------------------------------------------------------------------
(* The two backends side by side.                                           *)

\* the call `last` records, made on backend fs against disk d
call(fs, op, d, key, opt, data, order) ==
    CASE op = "exists" -> exists(fs, d, key)
      [] op = "get_data" -> get_data(fs, d, key)
      [] op = "get_file" -> get_file(fs, d, key)
      [] op = "put_file" -> put_file(fs, d, key, data)
      [] op = "delete_file" -> delete_file(fs, d, key)
      [] op = "list_dir" -> list_dir(fs, d, IF opt = "None" THEN <<>> ELSE <<key>>, order)

other_backend(fs) == IF fs = "local" THEN "tempdir" ELSE "local"

\* C25: whatever call one backend has just answered, the other backend,
\* given the same call on the same storage (and the same read_dir order),
\* returns the same Ok value or the same kind of error and leaves the
\* storage in the same state.
C25_BackendsAgree ==
    [][last'.op \in FsOps =>
        \E order \in orders(listed(disk, IF last'.opt = "None" THEN <<>> ELSE <<last'.key>>)) :
            LET out == call(other_backend(last'.fs), last'.op, disk, last'.key,
                            last'.opt, last'.data, order)
            IN  /\ out.res.kind = last'.res.kind
                /\ out.res.val = last'.res.val
                /\ out.disk = disk']_vars

-----------------------------------------------------------------------------
(* views::FileType and its ordering. A page's entries are their types; they *)
(* are compared with cmp and sorted by it.                                  *)

\* the most entries on a page
MaxEntries == 4

\* enum FileType { Directory, File }
FileType == {"Directory", "File"}

\* impl Ord for FileType: cmp, arm by arm
cmp(self, other) ==
    IF self = "Directory"
    THEN IF other = "Directory" THEN "Equal" ELSE "Less"
    ELSE IF other = "Directory" THEN "Less" ELSE "Greater"

\* impl PartialOrd: partial_cmp is Some(cmp), and `<` is partial_cmp == Some(Less)
lt(self, other) == cmp(self, other) = "Less"

\* slice::sort on a short slice is an insertion sort: the element at j moves
\* towards the front while it is less than the one before it
RECURSIVE insert_tail(_, _)
insert_tail(v, j) ==
    IF j > 1 /\ lt(v[j], v[j - 1])
    THEN insert_tail([v EXCEPT ![j - 1] = v[j], ![j] = v[j - 1]], j - 1)
    ELSE v

RECURSIVE insertion_sort_shift_left(_, _)
insertion_sort_shift_left(v, i) ==
    IF i > Len(v) THEN v ELSE insertion_sort_shift_left(insert_tail(v, i), i + 1)

sort(v) == insertion_sort_shift_left(v, 2)

\* two entries of the page are compared
Compare ==
    /\ \E i, j \in DOMAIN entries.list :
        entries' = [entries EXCEPT
                      !.compared = <<entries.list[i], entries.list[j],
                                     cmp(entries.list[i], entries.list[j])>>]
    /\ UNCHANGED <<fs_vars, server_paths, handles, requests, configuration, web>>

\* the page is sorted by type
Sort ==
    /\ entries' = [entries EXCEPT !.list = sort(entries.list), !.sorted = TRUE]
    /\ UNCHANGED <<fs_vars, server_paths, handles, requests, configuration, web>>

InitSort ==
    /\ InitFs
    /\ InitServerPaths
    /\ InitHandles
    /\ InitRequests
    /\ entries \in {[list |-> l, sorted |-> FALSE, compared |-> <<>>] :
                        l \in SeqsUpTo(FileType, MaxEntries)}
    /\ InitWeb

NextSort ==
    \/ Compare
    \/ Sort

SpecSort == InitSort /\ [][NextSort]_vars

\* C26: a comparison of a directory with a file says Less, of a file with a
\* directory Greater, of a type with itself Equal; and once the entries are
\* sorted by type no file stands before a directory.
C26_DirectoriesFirst ==
    /\ entries.compared # <<>> =>
        LET a == entries.compared[1]
            b == entries.compared[2]
            ordering == entries.compared[3]
        IN  /\ (a = "Directory" /\ b = "File") => ordering = "Less"
            /\ (a = "File" /\ b = "Directory") => ordering = "Greater"
            /\ a = b => ordering = "Equal"
    /\ entries.sorted =>
        \A i, j \in DOMAIN entries.list :
            (entries.list[i] = "File" /\ entries.list[j] = "Directory") => j < i

-----------------------------------------------------------------------------
(* run_web_server's control loop: every turn starts the server and waits,   *)
(* in a select!, for the server to come back or for a message on the        *)
(* control channel.                                                         *)

\* the most messages waiting in the control channel
MaxMessages == 2

\* const RELOAD_TIME: u64
RELOAD_TIME == 1000

\* enum WebServerControl { Stop, StopAfter(u64), Reload, ReloadAfter(u64) }
Stop == [type |-> "Stop", millis |-> 0]

StopAfter(millis) == [type |-> "StopAfter", millis |-> millis]

Reload == [type |-> "Reload", millis |-> 0]

ReloadAfter(millis) == [type |-> "ReloadAfter", millis |-> millis]

\* the delays senders ask for
Millis == {0, RELOAD_TIME}

WebServerControl ==
    {Stop, Reload} \cup {StopAfter(n) : n \in Millis} \cup {ReloadAfter(n) : n \in Millis}

\* Duration::from_secs and Duration::from_millis, as milliseconds
from_secs(secs) == secs * 1000

from_millis(millis) == millis

\* the sleep each arm of the match awaits
sleep_of(server_message) ==
    CASE server_message.type = "Stop" -> from_secs(1)
      [] server_message.type = "StopAfter" -> from_millis(server_message.millis)
      [] server_message.type = "Reload" -> from_secs(1)
      [] server_message.type = "ReloadAfter" -> from_secs(server_message.millis)

\* a control loop that returns after whatever message it slept on
returns_after_any(server_message) == TRUE

\* the arms that end with `return Ok(())`; the others fall out of the
\* select! into the next turn of the loop
returns_after(server_message) == server_message.type \in {"Stop", "StopAfter"}

\* recv() yields None once every Sender is gone; run_web_server owns web_tx
\* until it returns, so the channel is never closed while the loop runs
channel_closed == FALSE

\* the errors start_web_server fails with
ServerErrors == {Err("Io", "bind", <<>>), Err("Generic", "certificate", <<>>)}

\* the top of the loop: select! polls start_web_server(..)
StartWebServer ==
    /\ web.pc = "loop"
    /\ web' = [web EXCEPT !.pc = "select", !.serving = TRUE]
    /\ UNCHANGED <<fs_vars, server_paths, handles, requests, configuration, entries>>

\* the server future completes with Ok: logged, next turn
ServerExit ==
    /\ web.pc = "select"
    /\ web' = [web EXCEPT !.pc = "loop", !.serving = FALSE, !.server_result = Ok(<<>>)]
    /\ UNCHANGED <<fs_vars, server_paths, handles, requests, configuration, entries>>

\* the server future completes with Err(err): return Err(err)
ServerFail ==
    /\ web.pc = "select"
    /\ \E err \in ServerErrors :
        web' = [web EXCEPT !.pc = "returned", !.serving = FALSE,
                           !.server_result = err, !.result = err]
    /\ UNCHANGED <<fs_vars, server_paths, handles, requests, configuration, entries>>

\* recv() completes: select! drops the server future and the arm of the
\* message starts its sleep (None returns Ok(()) at once)
Recv ==
    /\ web.pc = "select"
    /\ web.queue # <<>> \/ channel_closed
    /\ web' = IF web.queue = <<>>
              THEN [web EXCEPT !.pc = "returned", !.serving = FALSE, !.result = Ok(<<>>)]
              ELSE [web EXCEPT !.pc = "sleep", !.serving = FALSE,
                               !.message = Head(web.queue), !.queue = Tail(web.queue),
                               !.sleep_ms = sleep_of(Head(web.queue))]
    /\ UNCHANGED <<fs_vars, server_paths, handles, requests, configuration, entries>>

\* the sleep is over
Wake ==
    /\ web.pc = "sleep"
    /\ web' = IF returns_after(web.message)
              THEN [web EXCEPT !.pc = "returned", !.result = Ok(<<>>)]
              ELSE [web EXCEPT !.pc = "loop"]
    /\ UNCHANGED <<fs_vars, server_paths, handles, requests, configuration, entries>>

\* somebody holding a Sender sends a message while the receiver is alive
Send ==
    /\ web.pc # "returned"
    /\ Len(web.queue) < MaxMessages
    /\ \E server_message \in WebServerControl :
        web' = [web EXCEPT !.queue = Append(@, server_message)]
    /\ UNCHANGED <<fs_vars, server_paths, handles, requests, configuration, entries>>

\* OidcErrorHandler::handle_oidc_error: ask for a reload in RELOAD_TIME
HandleOidcError ==
    /\ web.pc # "returned"
    /\ Len(web.queue) < MaxMessages
    /\ web' = [web EXCEPT !.queue = Append(@, ReloadAfter(RELOAD_TIME))]
    /\ UNCHANGED <<fs_vars, server_paths, handles, requests, configuration, entries>>

InitLoop ==
    /\ InitFs
    /\ InitServerPaths
    /\ InitHandles
    /\ InitRequests
    /\ InitEntries
    /\ web = WebAt("loop")

NextWeb ==
    \/ StartWebServer
    \/ ServerExit
    \/ ServerFail
    \/ Recv
    \/ Wake
    \/ Send
    \/ HandleOidcError

SpecWeb == InitLoop /\ [][NextWeb]_vars

\* the runtime polls a future that can make progress: a sleep that is due
\* completes, and the loop's next turn starts the server
SpecWebFair == SpecWeb /\ WF_vars(Wake) /\ WF_vars(StartWebServer)

\* the loop has received a message that stops it, resp. reloads
stopping == web.pc = "sleep" /\ web.message.type \in {"Stop", "StopAfter"}

reloading == web.pc = "sleep" /\ web.message.type \in {"Reload", "ReloadAfter"}

returned(res) == web.pc = "returned" /\ web.result = res

\* C27: from the receipt of Stop or StopAfter (or the end of the channel)
\* the server is never up again and the function eventually returns Ok; a
\* failed server makes the function return the server's error; after
\* Reload, ReloadAfter or a clean exit of the server the function does not
\* return and the server is eventually started again.
C27_ControlLoop ==
    /\ [][stopping => (~web'.serving /\ (stopping' \/ returned(Ok(<<>>))'))]_vars
    /\ []((stopping \/ web.pc = "returned") => ~web.serving)
    /\ stopping ~> returned(Ok(<<>>))
    /\ [](web.server_result \in ServerErrors => returned(web.server_result))
    /\ [][(reloading \/ web.pc = "loop") => web'.pc # "returned"]_vars
    /\ reloading ~> web.serving
    /\ (web.pc = "loop" /\ web.server_result = Ok(<<>>)) ~> web.serving

\* the function returned Ok after StopAfter, the server having been
\* restarted before by a clean exit
C27_Witness ==
    /\ returned(Ok(<<>>))
    /\ web.message.type = "StopAfter"
    /\ web.server_result = Ok(<<>>)

\* C28: the loop sleeps the n of ReloadAfter(n) as n milliseconds, as it
\* does for StopAfter(n): RELOAD_TIME milliseconds for the message the OIDC
\* error handler sends.
C28_ReloadAfterMillis ==
    (web.pc = "sleep" /\ web.message.type \in {"StopAfter", "ReloadAfter"})
        => web.sleep_ms = web.message.millis

-----------------------------------------------------------------------------
(* What an upload stores, and where.                                        *)

\* the key directory/file name of the field an upload took last
uploaded_key == last.accepted[Len(last.accepted)]

\* C29: an upload replaces no file that was there before it: every file of
\* the disk is still there afterwards, with the bytes it had.
C29_UploadNeverReplaces ==
    [][last'.op = "upload_file" =>
        \A n \in DOMAIN disk :
            ~disk[n].dir => (n \in DOMAIN disk' /\ disk'[n] = disk[n])]_vars

\* C30: an upload that returns Ok has written the key it checked with
\* exists, directory/file name, and get_file on that key returns the
\* uploaded bytes; an upload that took no field returns BadRequest and
\* leaves the disk as it was.
C30_UploadStoresAtKey ==
    last.op = "upload_file" =>
        /\ last.res.kind = "Ok" =>
            /\ \A a \in last.acc :
                a.how = "write" => path_eq(a.raw, target_path_from_key(uploaded_key))
            /\ get_file(last.fs, disk, uploaded_key).res = Ok(last.data)
        /\ last.accepted = <<>> =>
            (last.res.kind = "BadRequest" /\ last.changed = {})

====
